---- MODULE Spec2Model ----
(***************************************************************************)
(* Model of the two UI surfaces of the repository.                         *)
(*                                                                         *)
(*   Chat  (frontend/src/components/Chat/index.tsx, ChatInput)             *)
(*     handleSendMessage and its incremental decoder of the streamed       *)
(*     response, handleNewChat, handleQuestionClick, handleSourceClick.    *)
(*   Admin (unnamed/part_000)                                              *)
(*     file selection, single upload, batch upload and its progress        *)
(*     tracker, the document list and its deletions, the system prompt     *)
(*     editor.                                                             *)
(*                                                                         *)
(* Text is a sequence of one-character strings.  The JSON text of a        *)
(* stream record is written in a compact bracketed syntax, "{" tag         *)
(* payload "}", with one tag character per value of the `type` field; a    *)
(* text that is not of that shape is what JSON.parse rejects.              *)
(***************************************************************************)
EXTENDS Integers, Sequences, FiniteSets, TLC

\* ------------------------------------------------------------------ bounds
MaxLines == 2      \* lines of an arbitrary stream
MaxContent == 2    \* content records of a regular answer
MaxChunk == 12     \* characters delivered by one reader.read()
MaxSends == 2      \* accepted sends on the Chat surface
MaxPick == 2       \* files chosen in one file dialog
MaxBatch == 2      \* files listed for a batch
MaxUploads == 2    \* upload requests of one form in flight at once
MaxFetches == 2    \* document list requests awaiting their answer
MaxDeletes == 2    \* DELETE requests issued
MaxTotal == 3      \* length of an upload body, in transfer units
MaxBytes == 48     \* largest total of a progress event taken alone
MaxTimers == 2     \* pending timers that clear the success notice
MaxClicks == 2     \* handleSourceClick calls awaiting a response

VARIABLES
    messages,      \* Chat: useState<Message[]>
    isLoading,     \* Chat: useState(false)
    calls,         \* Chat: one record per accepted handleSendMessage call
    requests,      \* Chat: POSTs issued to /api/chat/query/stream
    now,           \* Chat: the clock read by Date.now()
    surface,       \* which of the two components is mounted
    selectedFile,  \* Admin: useState<File | null>
    metadata,      \* Admin: useState<DocumentMetadata>
    isUploading,   \* Admin: useState(false)
    uploads,       \* Admin: POSTs to /api/ingestion/upload awaiting their answer
    batchMode,     \* Admin: useState(false)
    batchFiles,    \* Admin: useState<BatchFileMetadata[]>
    isBatchUploading,  \* Admin: useState(false)
    batchProgress, \* Admin: useState({percent, stage, isActive})
    xhrs,          \* Admin: XMLHttpRequests to /api/ingestion/bulk-upload with work pending
    documents,     \* Admin: useState<Document[]>
    adminIsLoading,    \* Admin: useState(false), the isLoading of Admin
    adminError,    \* Admin: useState<string | null>, the error of Admin
    fetches,       \* Admin: GETs of fetchDocuments awaiting their answer
    debounce,      \* Admin: the 500 ms timer of the fetch effect is pending
    deletes,       \* Admin: one record per confirmed handleDeleteDocument call
    server,        \* the documents the backend holds
    alerted,       \* Admin: the message alert() showed last
    systemPrompt,  \* Admin: useState('')
    isCustomPrompt,    \* Admin: useState(false)
    promptLoading, \* Admin: useState(false)
    promptSaving,  \* Admin: useState(false)
    promptError,   \* Admin: useState<string | null>
    promptSuccess, \* Admin: useState<string | null>
    promptCall,    \* Admin: the request of the prompt editor awaiting its answer
    promptTimers,  \* Admin: pending 3000 ms timers of the success notice
    selectedDocument,  \* Chat: useState<Source | null>
    opens,         \* Chat: handleSourceClick calls awaiting a response
    sourceToast    \* Chat: the toast handleSourceClick showed last

chatVars == <<messages, isLoading, calls, requests, now>>
uploadVars == <<selectedFile, metadata, isUploading, uploads>>
batchVars == <<batchMode, batchFiles, isBatchUploading, batchProgress, xhrs>>
listVars == <<debounce, deletes, server>>
docVars == <<documents, adminIsLoading, adminError, fetches, listVars>>
promptVars == <<systemPrompt, isCustomPrompt, promptLoading, promptSaving,
                promptError, promptSuccess, promptCall, promptTimers>>
adminVars == <<uploadVars, batchVars, docVars, alerted, promptVars>>
viewerVars == <<selectedDocument, opens, sourceToast>>
vars == <<chatVars, surface, adminVars, viewerVars>>

\* A step of the mounted component leaves the other one as it is.
\* Within Chat the conversation and the document viewer share no state.
OnChat == surface = "chat" /\ UNCHANGED <<surface, adminVars, viewerVars>>
OnViewer == surface = "chat" /\ UNCHANGED <<surface, adminVars, chatVars>>
\* Within Admin the prompt editor and the document sections share no state.
OnAdmin == surface = "admin" /\ UNCHANGED <<surface, chatVars, viewerVars, promptVars>>
OnPrompt ==
    /\ surface = "admin"
    /\ UNCHANGED <<surface, chatVars, viewerVars, uploadVars, batchVars, docVars, alerted>>

\* ------------------------------------------------------------ text helpers
NL == "\n"
Prefix == <<"d", "a", "t", "a", ":", " ">>
Fallback == <<"Sorry, I encountered an error. Please try again.">>
NoSources == <<"undefined">>     \* the `sources` field of a message when unset

Last(s) == s[Len(s)]
Front(s) == SubSeq(s, 1, Len(s) - 1)
Drop(s, n) == SubSeq(s, n + 1, Len(s))

StartsWith(s, p) == Len(s) >= Len(p) /\ SubSeq(s, 1, Len(p)) = p

HasNL(s) == \E i \in 1..Len(s) : s[i] = NL
FirstNL(s) == CHOOSE i \in 1..Len(s) : s[i] = NL /\ \A j \in 1..(i - 1) : s[j] # NL

\* String.prototype.split('\n'): always at least one segment.
RECURSIVE Split(_)
Split(s) ==
    IF HasNL(s)
    THEN <<SubSeq(s, 1, FirstNL(s) - 1)>> \o Split(Drop(s, FirstNL(s)))
    ELSE <<s>>

RECURSIVE Flatten(_)
Flatten(ss) == IF ss = <<>> THEN <<>> ELSE ss[1] \o Flatten(Tail(ss))

\* --------------------------------------------------------- record syntax
Tags == [S |-> "sources", U |-> "sources_update", C |-> "content",
         D |-> "done", E |-> "error", Z |-> "ping"]
TagChars == {"S", "U", "C", "D", "E", "Z"}
PayloadChars == {"x", "y", "1", "2", "e"}
TagOf(type) == CHOOSE t \in TagChars : Tags[t] = type

ParseError == [ok |-> FALSE, type |-> "", payload |-> <<>>]

\* JSON.parse(line.slice(6)): the record, or a SyntaxError.
Parse(s) ==
    IF /\ Len(s) >= 3
       /\ s[1] = "{"
       /\ s[Len(s)] = "}"
       /\ s[2] \in TagChars
       /\ \A i \in 3..(Len(s) - 1) : s[i] \in PayloadChars
    THEN [ok |-> TRUE, type |-> Tags[s[2]], payload |-> SubSeq(s, 3, Len(s) - 1)]
    ELSE ParseError

\* What the backend writes for one record.
Encode(ev) == <<"{", TagOf(ev.type)>> \o ev.payload \o <<"}">>

\* ------------------------------------------------------- backend streams
\* Records the backend writes: two source lists, two text fragments, the
\* terminator, an error and a record of a type the client does not know.
ServerEvents ==
    { [type |-> "sources", payload |-> <<"1">>],
      [type |-> "sources_update", payload |-> <<"2">>],
      [type |-> "content", payload |-> <<"x">>],
      [type |-> "content", payload |-> <<"y">>],
      [type |-> "done", payload |-> <<>>],
      [type |-> "error", payload |-> <<"e">>],
      [type |-> "ping", payload |-> <<>>] }

Truncated == Prefix \o <<"{", "C", "x">>     \* a record JSON.parse rejects
Blank == <<>>                                \* the empty separator line

ServerLines == {Prefix \o Encode(ev) : ev \in ServerEvents} \cup {Truncated, Blank}

LinesOf(type) == {Prefix \o Encode(ev) : ev \in {e \in ServerEvents : e.type = type}}

SeqsUpTo(S, n) == UNION {[1..k -> S] : k \in 0..n}
Wire(ls) == Flatten([k \in DOMAIN ls |-> ls[k] \o <<NL>>])

\* Any lines in any order, and the regular answer: the sources, the text
\* fragments, the terminator.
ArbitraryStreams == {Wire(ls) : ls \in SeqsUpTo(ServerLines, MaxLines)}
AnswerStreams ==
    {Wire(<<s>> \o cs \o <<d>>) :
        s \in LinesOf("sources"), cs \in SeqsUpTo(LinesOf("content"), MaxContent),
        d \in LinesOf("done")}
Streams == ArbitraryStreams \cup AnswerStreams

\* The streams of a conversation of several requests: an answer that is
\* cut before its terminator, a terminated one, and an error.
LineFor(type, payload) == Prefix \o Encode([type |-> type, payload |-> payload])
SessionStreams ==
    { Wire(<<LineFor("sources_update", <<"2">>), LineFor("content", <<"x">>)>>),
      Wire(<<LineFor("content", <<"y">>), LineFor("done", <<>>)>>),
      Wire(<<LineFor("error", <<"e">>)>>) }

\* --------------------------------------------------------------- messages
UserMessage(t, text) ==
    [id |-> <<t, "user">>, role |-> "user", content |-> text,
     isStreaming |-> FALSE, sources |-> NoSources]

\* (variant: the placeholder is appended as a finished message)
StreamingMessageIdle(t) ==
    [id |-> <<t, "assistant">>, role |-> "assistant", content |-> <<>>,
     isStreaming |-> FALSE, sources |-> NoSources]
StreamingMessage(t) ==
    [id |-> <<t, "assistant">>, role |-> "assistant", content |-> <<>>,
     isStreaming |-> TRUE, sources |-> NoSources]

\* setMessages(prev => prev.map(msg => msg.id === id ? F(msg) : msg))
MapMessage(msgs, id, F(_)) ==
    [k \in DOMAIN msgs |-> IF msgs[k].id = id THEN F(msgs[k]) ELSE msgs[k]]

\* ------------------------------------------------------ the decode loop
\* st: the locals of handleSendMessage and the message list, threaded
\* through the loop; handled and events record what the loop has seen.
\* (variant: the fragment replaces the text instead of extending it)
AccumulateReplacing(acc, fragment) == fragment
\* (variant: the new fragment is put in front)
AccumulatePrepending(acc, fragment) == fragment \o acc
Accumulate(acc, fragment) == acc \o fragment

\* The updaters handed to setMessages, applied when the handler calls it.
SetSources(m, srcs) == [m EXCEPT !.sources = srcs]
SetContent(m, acc, srcs) ==
    [m EXCEPT !.content = acc, !.isStreaming = TRUE, !.sources = srcs]
SetDone(m) == [m EXCEPT !.isStreaming = FALSE]
\* (variant: the failed message is left marked as streaming)
SetFailedStillStreaming(m) == [m EXCEPT !.content = Fallback]
SetFailed(m) == [m EXCEPT !.content = Fallback, !.isStreaming = FALSE]

Dispatch(st, id, data) ==
    LET logged == [st EXCEPT !.events = Append(@, data)] IN
    CASE data.type = "sources" ->
            [logged EXCEPT !.sources = data.payload]
      [] data.type = "sources_update" ->
            LET F(m) == SetSources(m, data.payload) IN
            [logged EXCEPT !.sources = data.payload,
                           !.messages = MapMessage(@, id, F)]
      [] data.type = "content" ->
            LET acc == Accumulate(st.accumulatedContent, data.payload)
                F(m) == SetContent(m, acc, st.sources) IN
            [logged EXCEPT !.accumulatedContent = acc,
                           !.messages = MapMessage(@, id, F)]
      [] data.type = "done" ->
            [logged EXCEPT !.messages = MapMessage(@, id, SetDone)]
      [] data.type = "error" ->
            [logged EXCEPT !.thrown = TRUE]
      [] OTHER -> st

\* The body of the inner try: parse, then dispatch on data.type.
TryBody(st, id, line) ==
    LET data == Parse(Drop(line, Len(Prefix))) IN
    IF data.ok THEN Dispatch(st, id, data) ELSE [st EXCEPT !.thrown = TRUE]

\* The inner catch: whatever the try threw is logged and swallowed.
\* (variant: the inner catch lets the exception through)
InnerCatchRethrowing(st) == st
InnerCatch(st) == [st EXCEPT !.thrown = FALSE]

ProcessLine(st, id, line) ==
    LET seen == [st EXCEPT !.handled = Append(@, line)] IN
    IF StartsWith(line, Prefix) THEN InnerCatch(TryBody(seen, id, line)) ELSE seen

RECURSIVE ProcessLines(_, _, _)
ProcessLines(st, id, lines) ==
    IF lines = <<>> \/ st.thrown
    THEN st
    ELSE ProcessLines(ProcessLine(st, id, Head(lines)), id, Tail(lines))

\* lines = buffer.split('\n'); buffer = lines.pop() || ''
\* (variants: the last segment is handled at once; nothing is carried over)
CompleteLinesWithTail(segments) == segments
NextBufferEmptied(segments) == <<>>
\* (variant: the carry-over keeps the line break in front of it)
NextBufferWithBreak(segments) ==
    IF Len(segments) > 1 THEN <<NL>> \o Last(segments) ELSE Last(segments)
CompleteLines(segments) == Front(segments)
NextBuffer(segments) == Last(segments)

\* One pass of the while loop on a chunk that was read.
ProcessChunk(st, id, chunk) ==
    LET segments == Split(st.buffer \o chunk)
        r == ProcessLines(st, id, CompleteLines(segments))
    IN  [r EXCEPT !.buffer = NextBuffer(segments)]

LoopState(c, msgs) ==
    [accumulatedContent |-> c.accumulatedContent, sources |-> c.sources,
     buffer |-> c.buffer, handled |-> c.handled, events |-> c.events,
     messages |-> msgs, thrown |-> FALSE]

\* if (done) break: what is left in the buffer is dropped.
\* (variant: the loop handles the buffer as a last line before it ends)
AtStreamEndFlushing(st, id) ==
    IF st.buffer = <<>> THEN st
    ELSE [ProcessLine(st, id, st.buffer) EXCEPT !.buffer = <<>>]
AtStreamEnd(st, id) == st

\* ------------------------------------------------------------ Chat state
\* (variant: the accumulated text starts from what the last message shows)
NewCallResuming(t) ==
    [id |-> <<t, "assistant">>, pc |-> "fetch", outcome |-> "none",
     wire |-> <<>>, pos |-> 0, buffer |-> <<>>,
     accumulatedContent |-> IF messages = <<>> THEN <<>> ELSE Last(messages).content,
     sources |-> <<>>, handled |-> <<>>, events |-> <<>>, carried |-> FALSE]
NewCall(t) ==
    [id |-> <<t, "assistant">>, pc |-> "fetch", outcome |-> "none",
     wire |-> <<>>, pos |-> 0, buffer |-> <<>>, accumulatedContent |-> <<>>,
     sources |-> <<>>, handled |-> <<>>, events |-> <<>>, carried |-> FALSE]

Received(c) == SubSeq(c.wire, 1, c.pos)

\* The call has returned: its reader and its locals are gone, what is left
\* of it is how it ended.
Returned(c, outcome) ==
    [NewCall(c.id[1]) EXCEPT !.pc = "ended", !.outcome = outcome]
Active(c) == c.pc \in {"fetch", "read"}

NoSource == [filename |-> <<>>, fileUrl |-> <<>>, none |-> TRUE]   \* null

ChatInit ==
    /\ selectedDocument = NoSource
    /\ opens = <<>>
    /\ sourceToast = ""
    /\ messages = <<>>
    /\ isLoading = FALSE
    /\ calls = <<>>
    /\ requests = 0
    /\ now = 1

\* What the user can have typed into the input box.
Typed == {<<>>, <<" ">>, <<"q">>}
IsBlank(text) == \A k \in 1..Len(text) : text[k] = " "     \* !text.trim()

\* (variant: a send is refused for a blank message only)
HandleSendMessageWhileLoading(message, limit) ==
    IF IsBlank(message)
    THEN UNCHANGED chatVars
    ELSE /\ Len(calls) < limit
         /\ messages' = messages \o <<UserMessage(now, message), StreamingMessage(now)>>
         /\ isLoading' = TRUE
         /\ calls' = Append(calls, NewCall(now))
         /\ requests' = requests + 1
         /\ now' = now + 1

\* handleSendMessage up to its first await: the guard, the two appended
\* messages, isLoading and the POST.  Time moves on between two sends.
HandleSendMessage(message, limit) ==
    IF IsBlank(message) \/ isLoading
    THEN UNCHANGED chatVars
    ELSE /\ Len(calls) < limit
         /\ messages' = messages \o <<UserMessage(now, message), StreamingMessage(now)>>
         /\ isLoading' = TRUE
         /\ calls' = Append(calls, NewCall(now))
         /\ requests' = requests + 1
         /\ now' = now + 1

\* ChatInput.handleSend: Enter or the send button.
HandleSend(limit) ==
    /\ \E message \in Typed :
        IF ~IsBlank(message) /\ ~isLoading
        THEN HandleSendMessage(message, limit)
        ELSE UNCHANGED chatVars
    /\ OnChat

\* handleQuestionClick: the suggested questions are rendered only while the
\* message list is empty.
HandleQuestionClick(limit) ==
    /\ messages = <<>>
    /\ HandleSendMessage(<<"q">>, limit)
    /\ OnChat

HandleNewChat ==
    /\ messages' = <<>>
    /\ UNCHANGED <<isLoading, calls, requests, now>>
    /\ OnChat

\* The outer catch and the finally block.
CatchAndFinally(i, outcome) ==
    /\ messages' = MapMessage(messages, calls[i].id, SetFailed)
    /\ isLoading' = FALSE
    /\ calls' = [calls EXCEPT ![i] = Returned(calls[i], outcome)]
    /\ UNCHANGED <<requests, now>>

\* fetch rejects, answers with a non-success status, or has no body reader.
FetchFail(i) ==
    /\ calls[i].pc = "fetch"
    /\ \E cause \in {"rejected", "status", "noreader"} : CatchAndFinally(i, cause)
    /\ OnChat

\* The response is ok and has a reader; S is what the backend may write.
FetchOk(i, S) ==
    /\ calls[i].pc = "fetch"
    /\ \E w \in S : calls' = [calls EXCEPT ![i].pc = "read", ![i].wire = w]
    /\ UNCHANGED <<messages, isLoading, requests, now>>
    /\ OnChat

\* reader.read() yields the next n characters; the loop body runs on them.
ReadChunk(i) ==
    /\ calls[i].pc = "read"
    /\ \E n \in 1..MaxChunk :
        /\ calls[i].pos + n <= Len(calls[i].wire)
        /\ LET c == calls[i]
               chunk == SubSeq(c.wire, c.pos + 1, c.pos + n)
               r == ProcessChunk(LoopState(c, messages), c.id, chunk)
           IN  IF r.thrown
               THEN CatchAndFinally(i, "thrown")
               ELSE /\ messages' = r.messages
                    /\ calls' = [calls EXCEPT
                          ![i].pos = c.pos + n,
                          ![i].buffer = r.buffer,
                          ![i].accumulatedContent = r.accumulatedContent,
                          ![i].sources = r.sources,
                          ![i].handled = r.handled,
                          ![i].events = r.events,
                          ![i].carried = (c.buffer # <<>> /\ HasNL(chunk))]
                    /\ UNCHANGED <<isLoading, requests, now>>
    /\ OnChat

\* (variant: the loop ends and no finally block runs)
ReadDoneWithoutFinally(i) ==
    /\ calls[i].pc = "read"
    /\ calls' = [calls EXCEPT ![i] = Returned(calls[i], "completed")]
    /\ UNCHANGED <<messages, isLoading, requests, now>>
    /\ OnChat

\* reader.read() reports done: the backend closed the stream, after all it
\* had to write or earlier.  The loop ends, then the finally block runs.
ReadDone(i) ==
    /\ calls[i].pc = "read"
    /\ calls' = [calls EXCEPT ![i] = Returned(calls[i], "completed")]
    /\ messages' = AtStreamEnd(LoopState(calls[i], messages), calls[i].id).messages
    /\ isLoading' = FALSE
    /\ UNCHANGED <<requests, now>>
    /\ OnChat

\* reader.read() rejects: the connection broke while the body was read.
ReadFail(i) ==
    /\ calls[i].pc = "read"
    /\ CatchAndFinally(i, "readfailed")
    /\ OnChat

\* ------------------------------------------------------ handleSourceClick
RemoveAt(list, index) ==
    SubSeq(list, 1, index - 1) \o SubSeq(list, index + 1, Len(list))

\* A file name is text; a URL is a sequence of parts, <<>> for none.
\* encodeURIComponent escapes a space and throws a URIError on a
\* surrogate code unit without its pair.
LoneSurrogate == "<D800>"
EncodeChar(c) == IF c = " " THEN "%20" ELSE c
EncodeThrows(name) == \E k \in DOMAIN name : name[k] = LoneSurrogate
EncodeURIComponent(name) == [k \in DOMAIN name |-> EncodeChar(name[k])]

\* The sources a message can list: with or without a fileUrl of their own.
SourceNames == {<<"a", " ", "b">>, <<"a", LoneSurrogate>>}
Sources ==
    {[filename |-> n, fileUrl |-> u, none |-> FALSE] :
        n \in SourceNames, u \in {<<>>, <<"own">>}}

DownloadAnswers == {"url", "nourl", "badjson", "status", "network"}
ListAnswers == {"found", "nofileurl", "absent", "nodocuments", "badjson", "network"}

\* setSelectedDocument({...source, fileUrl: documentUrl}) and the toast.
OpenWith(source, documentUrl) ==
    /\ selectedDocument' = [source EXCEPT !.fileUrl = documentUrl]
    /\ sourceToast' = "Opening"

\* The first lookup: urlData.url of an ok response, else nothing.
AfterDownload(call) ==
    IF call.answer = "url" THEN <<"download">> ELSE <<>>

\* The second lookup: the fileUrl of the listed document of that name.
AfterList(call) ==
    IF call.answer = "found" THEN <<"list">> ELSE <<>>

\* The last step, outside the inner try blocks: the constructed URL, or
\* the outer catch when encodeURIComponent throws.
Construct(source) ==
    IF EncodeThrows(source.filename)
    THEN /\ sourceToast' = "Failed to open source"
         /\ UNCHANGED selectedDocument
    ELSE OpenWith(source, <<"/api/documents/">> \o EncodeURIComponent(source.filename))

NewOpen(source, pc) == [source |-> source, pc |-> pc, answer |-> "none"]

\* handleSourceClick up to its first await, or to its end when there is
\* none.  The URL of the download request is built inside the first try.
HandleSourceClick ==
    /\ \E source \in Sources :
        IF source.fileUrl # <<>>
        THEN OpenWith(source, source.fileUrl) /\ UNCHANGED opens
        ELSE /\ Len(opens) < MaxClicks
             /\ opens' = Append(opens,
                   NewOpen(source, IF EncodeThrows(source.filename)
                                   THEN "list" ELSE "download"))
             /\ UNCHANGED <<selectedDocument, sourceToast>>
    /\ OnViewer

\* The backend answers the request call k waits for.
OpenServed(k) ==
    /\ opens[k].answer = "none"
    /\ \E a \in IF opens[k].pc = "download" THEN DownloadAnswers ELSE ListAnswers :
          opens' = [opens EXCEPT ![k].answer = a]
    /\ UNCHANGED <<selectedDocument, sourceToast>>
    /\ OnViewer

\* From the answer of the download endpoint to the next await or the end.
DownloadAnswered(k) ==
    /\ opens[k].pc = "download" /\ opens[k].answer # "none"
    /\ IF AfterDownload(opens[k]) # <<>>
       THEN /\ OpenWith(opens[k].source, AfterDownload(opens[k]))
            /\ opens' = RemoveAt(opens, k)
       ELSE /\ opens' = [opens EXCEPT ![k] = NewOpen(opens[k].source, "list")]
            /\ UNCHANGED <<selectedDocument, sourceToast>>
    /\ OnViewer

\* From the answer of the documents list to the end.
ListAnswered(k) ==
    /\ opens[k].pc = "list" /\ opens[k].answer # "none"
    /\ opens' = RemoveAt(opens, k)
    /\ IF AfterList(opens[k]) # <<>>
       THEN OpenWith(opens[k].source, AfterList(opens[k]))
       ELSE Construct(opens[k].source)
    /\ OnViewer

HandleCloseDocument ==
    /\ selectedDocument # NoSource
    /\ selectedDocument' = NoSource
    /\ UNCHANGED <<opens, sourceToast>>
    /\ OnViewer

ViewerNext ==
    \/ HandleSourceClick
    \/ \E k \in DOMAIN opens : OpenServed(k)
    \/ \E k \in DOMAIN opens : DownloadAnswered(k)
    \/ \E k \in DOMAIN opens : ListAnswered(k)
    \/ HandleCloseDocument

\* ----------------------------------------------------------- Admin state
MAX_FILE_SIZE == 1610612736
NoFile == [name |-> <<>>, size |-> 0]              \* selectedFile = null
NoError == <<>>
NoDoc == ""
NoAlert == ""
Alert(text) == alerted' = text
Docs == {"d1", "d2"}

\* Files the dialogs can return: a document at the size limit and one
\* byte above it.
FileNames == {<<"a", "_", "b", ".", "p">>}
FileSizes == {MAX_FILE_SIZE, MAX_FILE_SIZE + 1}
Files == [name : FileNames, size : FileSizes]

\* file.name.replace(/\.[^/.]+$/, '')
DotPositions(name) == {i \in 1..Len(name) : name[i] = "."}
LastDot(name) == CHOOSE i \in DotPositions(name) : \A j \in DotPositions(name) : j <= i
NameWithoutExt(name) ==
    IF /\ DotPositions(name) # {}
       /\ LastDot(name) < Len(name)
       /\ \A i \in (LastDot(name) + 1)..Len(name) : name[i] # "/"
    THEN SubSeq(name, 1, LastDot(name) - 1)
    ELSE name
\* .replace(/[_-]/g, ' ')
SpaceSeparators(text) ==
    [i \in DOMAIN text |-> IF text[i] \in {"_", "-"} THEN " " ELSE text[i]]
DisplayNameOf(file) == SpaceSeparators(NameWithoutExt(file.name))

\* isVideoFile: /\.(mp4|webm|mov|avi|mkv)$/i; "m" is the video extension,
\* "p" the document one.
IsVideoFile(name) == Len(name) >= 2 /\ name[Len(name) - 1] = "." /\ name[Len(name)] = "m"
DocumentTypeOf(file) == IF IsVideoFile(file.name) THEN "video" ELSE "article"

DefaultMetadata == [displayName |-> <<>>, documentType |-> "article"]
Idle == [percent |-> 0, stage |-> "", isActive |-> FALSE]
Preparing == [percent |-> 0, stage |-> "Preparing", isActive |-> TRUE]
\* (variant: the response is shown as Complete at once)
QueuedShownComplete == [percent |-> 100, stage |-> "Complete", isActive |-> TRUE]
Queued == [percent |-> 95, stage |-> "Queued", isActive |-> TRUE]
Complete == [percent |-> 100, stage |-> "Complete", isActive |-> TRUE]

\* The prompt editor. The mount effect has issued its GET.
NoSuccess == <<>>                  \* promptSuccess = null
NoCall == [kind |-> "none", answer |-> "none", prompt |-> <<>>, custom |-> FALSE]
Sent(kind) == [NoCall EXCEPT !.kind = kind]
ServerPrompts == {<<"d">>, <<"c">>}     \* what the backend may hold as prompt

AdminInit ==
    /\ selectedFile = NoFile
    /\ metadata = DefaultMetadata
    /\ isUploading = FALSE
    /\ uploads = <<>>
    /\ batchMode = FALSE
    /\ batchFiles = <<>>
    /\ isBatchUploading = FALSE
    /\ batchProgress = Idle
    /\ xhrs = <<>>
    /\ documents = <<>>
    /\ adminIsLoading = FALSE
    /\ adminError = NoError
    /\ fetches = <<>>
    /\ debounce = TRUE
    /\ deletes = <<>>
    /\ server = Docs
    /\ alerted = NoAlert
    /\ systemPrompt = <<>>
    /\ isCustomPrompt = FALSE
    /\ promptLoading = TRUE
    /\ promptSaving = FALSE
    /\ promptError = NoError
    /\ promptSuccess = NoSuccess
    /\ promptCall = Sent("load")
    /\ promptTimers = 0

\* ------------------------------------------------------- fetchDocuments
\* The list the backend answers with: its documents in a fixed order.
ServerList(held) ==
    (IF "d1" \in held THEN <<"d1">> ELSE <<>>) \o (IF "d2" \in held THEN <<"d2">> ELSE <<>>)

\* fetchDocuments up to its await: the flags and the GET.  `after` names
\* the document whose deletion made the handler ask for the list.
FetchDocumentsAfter(doc) ==
    /\ adminIsLoading' = TRUE
    /\ adminError' = NoError
    /\ fetches' = Append(fetches, [pc |-> "pending", list |-> <<>>, after |-> doc])
    /\ UNCHANGED documents
FetchDocuments == FetchDocumentsAfter(NoDoc)

\* The timer of the effect fires: the fetch on mount.
DebounceTimer ==
    /\ debounce
    /\ Len(fetches) < MaxFetches
    /\ debounce' = FALSE
    /\ FetchDocuments
    /\ UNCHANGED <<deletes, server, uploadVars, batchVars>>
    /\ UNCHANGED alerted
    /\ OnAdmin

\* The backend reads its documents for the GET of fetch k.
FetchDocumentsServed(k) ==
    /\ fetches[k].pc = "pending"
    /\ fetches' = [fetches EXCEPT ![k].pc = "served", ![k].list = ServerList(server)]
    /\ UNCHANGED <<documents, adminIsLoading, adminError, listVars, uploadVars, batchVars>>
    /\ UNCHANGED alerted
    /\ OnAdmin

\* The GET of fetch k is answered: the list (with or without an error
\* field), or a failure (network, status, body that is not JSON).
FetchDocumentsAnswered(k) ==
    /\ \/ /\ fetches[k].pc = "served"
          /\ documents' = fetches[k].list
          /\ \E err \in {NoError, <<"error">>} :
                adminError' = IF err # NoError THEN err ELSE adminError
       \/ /\ documents' = <<>>
          /\ adminError' = <<"Failed to fetch documents">>
    /\ fetches' = RemoveAt(fetches, k)
    /\ adminIsLoading' = FALSE
    /\ UNCHANGED <<listVars, uploadVars, batchVars>>
    /\ UNCHANGED alerted
    /\ OnAdmin

\* -------------------------------------------------- handleDeleteDocument
\* handleDeleteDocument on a row of the list, up to its await: the
\* confirmation dialog and the DELETE.
HandleDeleteDocument ==
    /\ \E row \in DOMAIN documents, confirmed \in BOOLEAN :
        IF ~confirmed
        THEN UNCHANGED deletes
        ELSE /\ Len(deletes) < MaxDeletes
             /\ deletes' = Append(deletes,
                    [doc |-> documents[row], pc |-> "sent", outcome |-> "none"])
    /\ UNCHANGED <<documents, adminIsLoading, adminError, fetches, debounce, server,
                   uploadVars, batchVars>>
    /\ UNCHANGED alerted
    /\ OnAdmin

\* The backend handles the DELETE of call j: it removes the document it
\* holds, or answers with a failure status (the document is not there, or
\* another error).
DeleteServed(j) ==
    /\ deletes[j].pc = "sent"
    /\ \/ /\ deletes[j].doc \in server
          /\ server' = server \ {deletes[j].doc}
          /\ deletes' = [deletes EXCEPT ![j].pc = "ok"]
       \/ /\ UNCHANGED server
          /\ deletes' = [deletes EXCEPT ![j].pc = "failed"]
    /\ UNCHANGED <<documents, adminIsLoading, adminError, fetches, debounce,
                   uploadVars, batchVars>>
    /\ UNCHANGED alerted
    /\ OnAdmin

\* (variant: a failure is followed by a refetch as well)
AlertFailureAndRefetch == Alert("Failed to delete document") /\ FetchDocuments
\* The else branch and the catch block: an alert, nothing else.
AlertFailure ==
    /\ Alert("Failed to delete document")
    /\ UNCHANGED <<documents, adminIsLoading, adminError, fetches>>

\* The response of call j arrives: response.ok alerts and refetches, any
\* other status alerts the response text.
DeleteAnswered(j) ==
    /\ \/ /\ deletes[j].pc = "ok"
          /\ deletes' = [deletes EXCEPT ![j].pc = "done", ![j].outcome = "deleted"]
          /\ Alert("Document deleted successfully")
          /\ FetchDocumentsAfter(deletes[j].doc)
       \/ /\ deletes[j].pc = "failed"
          /\ deletes' = [deletes EXCEPT ![j].pc = "done", ![j].outcome = "status"]
          /\ AlertFailure
    /\ UNCHANGED <<debounce, server, uploadVars, batchVars>>
    /\ OnAdmin

\* fetch or response.text() rejects: the catch block alerts.
DeleteFailed(j) ==
    /\ deletes[j].pc \in {"sent", "ok", "failed"}
    /\ deletes' = [deletes EXCEPT ![j].pc = "done", ![j].outcome = "network"]
    /\ AlertFailure
    /\ UNCHANGED <<debounce, server, uploadVars, batchVars>>
    /\ OnAdmin

\* --------------------------------------------------------- single upload
\* handleFileSelect: the file input of the single form.
HandleFileSelect ==
    /\ ~batchMode
    /\ \E files \in SeqsUpTo(Files, 1) :
        IF files # <<>>
        THEN LET file == files[1] IN
             IF file.size > MAX_FILE_SIZE
             THEN /\ Alert("File is too large")
                  /\ UNCHANGED <<selectedFile, metadata>>
             ELSE /\ selectedFile' = file
                  /\ metadata' =
                        IF metadata.displayName = <<>>
                        THEN [displayName |-> DisplayNameOf(file),
                              documentType |-> DocumentTypeOf(file)]
                        ELSE metadata
                  /\ UNCHANGED alerted
        ELSE UNCHANGED <<selectedFile, metadata, alerted>>
    /\ UNCHANGED <<isUploading, uploads, batchVars, docVars>>
    /\ OnAdmin

\* The remove button next to the selected file.
RemoveSelectedFile ==
    /\ ~batchMode /\ selectedFile # NoFile
    /\ selectedFile' = NoFile
    /\ UNCHANGED <<metadata, isUploading, uploads, batchVars, docVars>>
    /\ UNCHANGED alerted
    /\ OnAdmin

\* The display-name field of the single form.
EditDisplayName ==
    /\ ~batchMode /\ selectedFile # NoFile
    /\ \E text \in {<<>>, <<"a", " ", "b">>} :
          metadata' = [metadata EXCEPT !.displayName = text]
    /\ UNCHANGED <<selectedFile, isUploading, uploads, batchVars, docVars>>
    /\ UNCHANGED alerted
    /\ OnAdmin

\* handleUpload up to its await.
\* (variant: only the file is validated)
UploadInvalidFileOnly == selectedFile = NoFile
\* !selectedFile || !metadata.displayName
UploadInvalid == selectedFile = NoFile \/ metadata.displayName = <<>>

HandleUpload ==
    IF UploadInvalid
    THEN /\ Alert("Please select a file and provide a display name")
         /\ UNCHANGED <<uploadVars, batchVars, docVars>>
    ELSE /\ Len(uploads) < MaxUploads /\ Len(fetches) < MaxFetches
         /\ isUploading' = TRUE
         /\ uploads' = Append(uploads, [file |-> selectedFile, pc |-> "sending"])
         /\ UNCHANGED <<selectedFile, metadata, batchVars, docVars, alerted>>

\* The upload button: rendered with a selected file, disabled without a
\* display name and while an upload runs.
UploadClick ==
    /\ ~batchMode /\ selectedFile # NoFile
    /\ ~(metadata.displayName = <<>> \/ isUploading)
    /\ HandleUpload
    /\ OnAdmin

\* handleUpload called while no upload runs, whatever else the form shows:
\* the button not rendered, or disabled for want of a display name.
CallHandleUpload ==
    /\ ~isUploading
    /\ HandleUpload
    /\ OnAdmin

\* The POST of upload u is answered: with success, or with a failure
\* (network, status).
\* (variant: a failed upload resets the form as a successful one does)
ResetFormOnFailure ==
    /\ selectedFile' = NoFile
    /\ metadata' = DefaultMetadata
    /\ UNCHANGED docVars
\* The else branch and the catch of handleUpload: an alert and nothing else.
UploadFailed ==
    UNCHANGED <<selectedFile, metadata, docVars>>

UploadAnswered(u) ==
    /\ uploads[u].pc = "sending"
    /\ uploads' = RemoveAt(uploads, u)
    /\ \/ /\ selectedFile' = NoFile
          /\ metadata' = DefaultMetadata
          /\ FetchDocuments
          /\ Alert("Document uploaded successfully!")
          /\ UNCHANGED listVars
       \/ /\ \E text \in {"File is too large. Please select a file smaller than 1.5 GB.",
                            "Upload failed"} : Alert(text)
          /\ UploadFailed
    /\ isUploading' = FALSE
    /\ UNCHANGED batchVars
    /\ OnAdmin

\* ---------------------------------------------------------- batch upload
BatchItem(file) ==
    [file |-> file, displayName |-> DisplayNameOf(file),
     documentType |-> DocumentTypeOf(file)]

\* (variant: the size check lets a file one byte over the limit through)
TooLargeOffByOne(file) == file.size > MAX_FILE_SIZE + 1
TooLarge(file) == file.size > MAX_FILE_SIZE

\* The loop of handleBatchFileSelect: oversized files are skipped.
RECURSIVE NewFiles(_)
NewFiles(files) ==
    IF files = <<>> THEN <<>>
    ELSE IF TooLarge(Head(files)) THEN NewFiles(Tail(files))
    ELSE <<BatchItem(Head(files))>> \o NewFiles(Tail(files))

\* The "Upload Batch" button, shown in single mode with no file selected.
EnterBatchMode ==
    /\ ~batchMode /\ selectedFile = NoFile
    /\ batchMode' = TRUE
    /\ UNCHANGED <<batchFiles, isBatchUploading, batchProgress, xhrs, uploadVars, docVars>>
    /\ UNCHANGED alerted
    /\ OnAdmin

\* handleBatchFileSelect: the file input of the batch form.
HandleBatchFileSelect ==
    /\ batchMode
    /\ \E files \in SeqsUpTo(Files, MaxPick) :
        /\ Len(batchFiles) + Len(files) <= MaxBatch
        /\ batchFiles' = IF files # <<>> THEN batchFiles \o NewFiles(files) ELSE batchFiles
        /\ IF \E k \in DOMAIN files : TooLarge(files[k])
           THEN Alert("File is too large and will be skipped")
           ELSE UNCHANGED alerted
    /\ UNCHANGED <<batchMode, isBatchUploading, batchProgress, xhrs, uploadVars, docVars>>
    /\ OnAdmin

\* handleBatchMetadataChange on the display name of row index.
HandleBatchMetadataChange ==
    /\ batchMode
    /\ \E index \in DOMAIN batchFiles, value \in {<<" ">>, <<"a", " ", "b">>} :
        batchFiles' = [batchFiles EXCEPT ![index].displayName = value]
    /\ UNCHANGED <<batchMode, isBatchUploading, batchProgress, xhrs, uploadVars, docVars>>
    /\ UNCHANGED alerted
    /\ OnAdmin

HandleRemoveBatchFile ==
    /\ batchMode
    /\ \E index \in DOMAIN batchFiles : batchFiles' = RemoveAt(batchFiles, index)
    /\ UNCHANGED <<batchMode, isBatchUploading, batchProgress, xhrs, uploadVars, docVars>>
    /\ UNCHANGED alerted
    /\ OnAdmin

\* (variant: cancelling also aborts the requests, whose abort listener
\* resets the tracker and the flag)
HandleCancelBatchAborting ==
    /\ batchMode
    /\ batchFiles' = <<>>
    /\ batchMode' = FALSE
    /\ xhrs' = <<>>
    /\ batchProgress' = [percent |-> 0, stage |-> "", isActive |-> FALSE]
    /\ isBatchUploading' = FALSE
    /\ UNCHANGED <<uploadVars, docVars>>
    /\ UNCHANGED alerted
    /\ OnAdmin

HandleCancelBatch ==
    /\ batchMode
    /\ batchFiles' = <<>>
    /\ batchMode' = FALSE
    /\ UNCHANGED <<isBatchUploading, batchProgress, xhrs, uploadVars, docVars>>
    /\ UNCHANGED alerted
    /\ OnAdmin

MissingNames(list) == \E k \in DOMAIN list : IsBlank(list[k].displayName)

NewXhr(list, total) ==
    [files |-> [k \in DOMAIN list |-> list[k].file], pc |-> "sending",
     total |-> total, loaded |-> 0, result |-> "none"]

\* handleBatchUpload to its end: validation, the flags, the listeners and
\* xhr.send.  The body is total transfer units long.
HandleBatchUpload ==
    IF batchFiles = <<>>
    THEN /\ Alert("Please select files to upload")
         /\ UNCHANGED <<uploadVars, batchVars, docVars>>
    ELSE IF MissingNames(batchFiles)
    THEN /\ Alert("Please provide display names for all files")
         /\ UNCHANGED <<uploadVars, batchVars, docVars>>
    ELSE /\ Len(xhrs) < MaxUploads /\ Len(fetches) < MaxFetches
         /\ isBatchUploading' = TRUE
         /\ batchProgress' = Preparing
         /\ \E total \in 1..MaxTotal : xhrs' = Append(xhrs, NewXhr(batchFiles, total))
         /\ UNCHANGED <<batchMode, batchFiles, uploadVars, docVars, alerted>>

\* (variant: the upload button is not disabled while an upload runs)
UploadButtonDisabledNamesOnly == MissingNames(batchFiles)
UploadButtonDisabled == isBatchUploading \/ MissingNames(batchFiles)

\* The batch upload button: rendered for a non-empty list in batch mode.
BatchUploadClick ==
    /\ batchMode /\ batchFiles # <<>>
    /\ ~UploadButtonDisabled
    /\ HandleBatchUpload
    /\ OnAdmin

\* handleBatchUpload called while no batch upload runs, whatever else the
\* form shows: the button not rendered, or disabled for a blank name.
CallHandleBatchUpload ==
    /\ ~isBatchUploading
    /\ HandleBatchUpload
    /\ OnAdmin

\* (variant: the ratio is mapped onto the whole bar)
UploadPercentOfWholeBar(loaded, total) == (2 * 100 * loaded + total) \div (2 * total)
\* Math.round((loaded / total) * 90)
UploadPercent(loaded, total) == (2 * 90 * loaded + total) \div (2 * total)

\* (variant: the last byte sent already shows the tail of the bar)
OnProgressIntoTail(loaded, total, lengthComputable) ==
    IF lengthComputable
    THEN [percent |-> IF loaded = total THEN 95 ELSE UploadPercent(loaded, total),
          stage |-> "Uploading", isActive |-> TRUE]
    ELSE batchProgress
\* The progress listener.
OnProgress(loaded, total, lengthComputable) ==
    IF lengthComputable
    THEN [percent |-> UploadPercent(loaded, total), stage |-> "Uploading", isActive |-> TRUE]
    ELSE batchProgress

\* A progress event of the upload of x: the bytes sent so far never
\* decrease, and the length of a form body is known.
UploadProgress(x) ==
    /\ xhrs[x].pc = "sending"
    /\ \E loaded \in xhrs[x].loaded..xhrs[x].total :
        /\ xhrs' = [xhrs EXCEPT ![x].loaded = loaded]
        /\ batchProgress' = OnProgress(loaded, xhrs[x].total, xhrs[x].total # 0)
    /\ UNCHANGED <<batchMode, batchFiles, isBatchUploading, uploadVars, docVars>>
    /\ UNCHANGED alerted
    /\ OnAdmin

\* (variant: the tracker is reset, the flag is not)
ResetProgressOnly ==
    /\ batchProgress' = Idle
    /\ UNCHANGED isBatchUploading
\* setBatchProgress to idle and setIsBatchUploading(false), called together.
ResetProgress ==
    /\ batchProgress' = Idle
    /\ isBatchUploading' = FALSE

\* (variant: a failure resets the form the way a success does)
ResetAsAfterSuccess ==
    /\ ResetProgress
    /\ batchFiles' = <<>>
    /\ batchMode' = FALSE
\* What the catch of the load listener, its else branch and the error and
\* abort listeners set.
ResetAfterFailure ==
    /\ ResetProgress
    /\ UNCHANGED <<batchMode, batchFiles>>

\* The request of x is over and nothing of it is pending any more.
Over(x) == xhrs' = RemoveAt(xhrs, x)

\* The load listener on a 2xx status. The whole body has been sent, the
\* last progress event (loaded = total) precedes load. The response text
\* is JSON with a results list, JSON without one, or not JSON.
LoadSuccess(x) ==
    /\ xhrs[x].pc = "sending"
    /\ xhrs[x].loaded = xhrs[x].total
    /\ \/ \E result \in {"results", "noresults"} :
            /\ xhrs' = [xhrs EXCEPT ![x].pc = "queued", ![x].result = result,
                                    ![x].loaded = 0, ![x].total = 0]
            /\ batchProgress' = Queued
            /\ UNCHANGED <<isBatchUploading, alerted, batchMode, batchFiles>>
       \/ /\ Over(x)
          /\ Alert("Upload completed but response parsing failed")
          /\ ResetAfterFailure
    /\ UNCHANGED <<uploadVars, docVars>>
    /\ OnAdmin

\* The load listener on another status, the error and the abort listeners:
\* each resets the batch state, the first two after an alert.
LoadFailure(x) ==
    /\ xhrs[x].pc = "sending"
    /\ Over(x)
    /\ \/ Alert("Batch upload failed: status")
       \/ Alert("Batch upload failed: Network error")
       \/ UNCHANGED alerted
    /\ ResetAfterFailure
    /\ UNCHANGED <<uploadVars, docVars>>
    /\ OnAdmin

\* The 300 ms timer: Complete is shown, then result.results is read, which
\* throws when the response has no results list; the reset timer is set
\* only when it did not throw.
CompleteTimer(x) ==
    /\ xhrs[x].pc = "queued"
    /\ batchProgress' = Complete
    /\ xhrs' = [xhrs EXCEPT ![x].pc =
                  IF xhrs[x].result = "results" THEN "complete" ELSE "threw"]
    /\ IF xhrs[x].result = "results"
       THEN Alert("Batch upload complete!")
       ELSE UNCHANGED alerted
    /\ UNCHANGED <<batchMode, batchFiles, isBatchUploading, uploadVars, docVars>>
    /\ OnAdmin

\* The 500 ms timer: the batch state is reset and the list refetched.
ResetTimer(x) ==
    /\ xhrs[x].pc = "complete"
    /\ Over(x)
    /\ batchFiles' = <<>>
    /\ batchMode' = FALSE
    /\ ResetProgress
    /\ FetchDocuments
    /\ UNCHANGED <<listVars, uploadVars>>
    /\ UNCHANGED alerted
    /\ OnAdmin

UploadNext ==
    \/ HandleFileSelect
    \/ RemoveSelectedFile
    \/ EditDisplayName
    \/ UploadClick
    \/ \E u \in DOMAIN uploads : UploadAnswered(u)

DocumentsNext ==
    \/ DebounceTimer
    \/ \E k \in DOMAIN fetches : FetchDocumentsServed(k)
    \/ \E k \in DOMAIN fetches : FetchDocumentsAnswered(k)

DeleteNext ==
    \/ HandleDeleteDocument
    \/ \E j \in DOMAIN deletes : DeleteServed(j)
    \/ \E j \in DOMAIN deletes : DeleteAnswered(j)
    \/ \E j \in DOMAIN deletes : DeleteFailed(j)

BatchNext ==
    \/ EnterBatchMode
    \/ HandleBatchFileSelect
    \/ HandleBatchMetadataChange
    \/ HandleRemoveBatchFile
    \/ HandleCancelBatch
    \/ BatchUploadClick
    \/ \E x \in DOMAIN xhrs : UploadProgress(x)
    \/ \E x \in DOMAIN xhrs : LoadSuccess(x)
    \/ \E x \in DOMAIN xhrs : LoadFailure(x)
    \/ \E x \in DOMAIN xhrs : CompleteTimer(x)
    \/ \E x \in DOMAIN xhrs : ResetTimer(x)

\* ------------------------------------------------------- system prompt
\* The backend answers the request of the prompt editor: a 2xx response
\* whose body parses, one whose body does not, another status, or no
\* response at all.
PromptServed ==
    /\ promptCall.kind # "none" /\ promptCall.answer = "none"
    /\ \/ \E p \in ServerPrompts, c \in BOOLEAN :
            promptCall' = [promptCall EXCEPT !.answer = "ok", !.prompt = p, !.custom = c]
       \/ \E a \in {"badjson", "status", "network"} :
            promptCall' = [promptCall EXCEPT !.answer = a]
    /\ UNCHANGED <<systemPrompt, isCustomPrompt, promptLoading, promptSaving,
                   promptError, promptSuccess, promptTimers>>
    /\ OnPrompt

\* fetchSystemPrompt of the mount effect, from the answer on.
FetchSystemPromptAnswered ==
    /\ promptCall.kind = "load" /\ promptCall.answer # "none"
    /\ promptCall' = NoCall
    /\ IF promptCall.answer = "ok"
       THEN /\ systemPrompt' = promptCall.prompt
            /\ isCustomPrompt' = promptCall.custom
            /\ UNCHANGED promptError
       ELSE IF promptCall.answer = "status"
       THEN UNCHANGED <<systemPrompt, isCustomPrompt, promptError>>
       ELSE /\ promptError' = <<"Failed to load system prompt">>
            /\ UNCHANGED <<systemPrompt, isCustomPrompt>>
    /\ promptLoading' = FALSE
    /\ UNCHANGED <<promptSaving, promptSuccess, promptTimers>>
    /\ OnPrompt

\* onChange of the textarea, rendered once the prompt is loaded.
EditSystemPrompt ==
    /\ ~promptLoading
    /\ \E text \in {<<>>, <<" ">>, <<"e">>} : systemPrompt' = text
    /\ UNCHANGED <<isCustomPrompt, promptLoading, promptSaving, promptError,
                   promptSuccess, promptCall, promptTimers>>
    /\ OnPrompt

\* What both handlers set before their request.
PromptBegin(kind) ==
    /\ promptSaving' = TRUE
    /\ promptError' = NoError
    /\ promptSuccess' = NoSuccess
    /\ promptCall' = Sent(kind)
    /\ UNCHANGED <<systemPrompt, isCustomPrompt, promptLoading, promptTimers>>

\* (variant: a failure also marks the prompt as custom)
PromptFailedMarkingCustom(text) ==
    /\ promptError' = <<text>>
    /\ isCustomPrompt' = TRUE
    /\ UNCHANGED <<systemPrompt, promptSuccess, promptTimers>>
\* The else branch and the catch of both handlers.
PromptFailed(text) ==
    /\ promptError' = <<text>>
    /\ UNCHANGED <<systemPrompt, isCustomPrompt, promptSuccess, promptTimers>>

\* What both handlers do after a success: the notice and its timer.
PromptSucceeded(text) ==
    /\ promptSuccess' = <<text>>
    /\ promptTimers' = promptTimers + 1
    /\ UNCHANGED promptError

\* Save Prompt: disabled={promptSaving || !systemPrompt.trim()}.
HandleSavePrompt ==
    /\ ~promptLoading /\ ~promptSaving /\ ~IsBlank(systemPrompt)
    /\ promptTimers < MaxTimers
    /\ PromptBegin("save")
    /\ OnPrompt

SavePromptAnswered ==
    /\ promptCall.kind = "save" /\ promptCall.answer # "none"
    /\ promptCall' = NoCall
    /\ IF promptCall.answer \in {"ok", "badjson"}      \* the body is not read
       THEN /\ isCustomPrompt' = TRUE
            /\ PromptSucceeded("System prompt saved successfully!")
            /\ UNCHANGED systemPrompt
       ELSE PromptFailed("Failed to save")
    /\ promptSaving' = FALSE
    /\ UNCHANGED promptLoading
    /\ OnPrompt

\* Reset: disabled={promptSaving}; window.confirm may be declined.
HandleResetPrompt ==
    /\ ~promptLoading /\ ~promptSaving
    /\ promptTimers < MaxTimers
    /\ \E confirmed \in BOOLEAN :
          IF confirmed THEN PromptBegin("reset") ELSE UNCHANGED promptVars
    /\ OnPrompt

ResetPromptAnswered ==
    /\ promptCall.kind = "reset" /\ promptCall.answer # "none"
    /\ promptCall' = NoCall
    /\ IF promptCall.answer = "ok"
       THEN /\ systemPrompt' = promptCall.prompt
            /\ isCustomPrompt' = FALSE
            /\ PromptSucceeded("System prompt reset to default!")
       ELSE PromptFailed("Failed to reset")
    /\ promptSaving' = FALSE
    /\ UNCHANGED promptLoading
    /\ OnPrompt

\* setTimeout(() => setPromptSuccess(null), 3000).
PromptSuccessTimer ==
    /\ promptTimers > 0
    /\ promptTimers' = promptTimers - 1
    /\ promptSuccess' = NoSuccess
    /\ UNCHANGED <<systemPrompt, isCustomPrompt, promptLoading, promptSaving,
                   promptError, promptCall>>
    /\ OnPrompt

PromptNext ==
    \/ PromptServed
    \/ FetchSystemPromptAnswered
    \/ EditSystemPrompt
    \/ HandleSavePrompt
    \/ SavePromptAnswered
    \/ HandleResetPrompt
    \/ ResetPromptAnswered
    \/ PromptSuccessTimer

\* ------------------------------------------------------- specifications
\* SpecStream: one request, every stream of up to MaxLines lines.
StreamNext ==
    \/ HandleSend(1)
    \/ HandleQuestionClick(1)
    \/ HandleNewChat
    \/ \E i \in DOMAIN calls : FetchFail(i)
    \/ \E i \in DOMAIN calls : FetchOk(i, Streams)
    \/ \E i \in DOMAIN calls : ReadChunk(i)
    \/ \E i \in DOMAIN calls : ReadDone(i)
    \/ \E i \in DOMAIN calls : ReadFail(i)

\* SpecSurfaces: either component is mounted; the Chat surface with up to
\* MaxSends requests, the Admin surface with its batch form.
SessionNext ==
    \/ HandleSend(MaxSends)
    \/ HandleQuestionClick(MaxSends)
    \/ HandleNewChat
    \/ \E i \in DOMAIN calls : FetchFail(i)
    \/ \E i \in DOMAIN calls : FetchOk(i, SessionStreams)
    \/ \E i \in DOMAIN calls : ReadChunk(i)
    \/ \E i \in DOMAIN calls : ReadDone(i)
    \/ \E i \in DOMAIN calls : ReadFail(i)

StreamInit == surface = "chat" /\ ChatInit /\ AdminInit

\* SpecSessionFair: a session of sends in which every fetch is settled
\* and every reader.read() is.
Settle == \E i \in DOMAIN calls : FetchFail(i) \/ FetchOk(i, SessionStreams)
Read == \E i \in DOMAIN calls : ReadDone(i) \/ ReadFail(i) \/ ReadChunk(i)
SpecSessionFair ==
    /\ StreamInit
    /\ [][SessionNext]_vars
    /\ WF_vars(Settle)
    /\ WF_vars(Read)

SurfacesInit == surface \in {"chat", "admin"} /\ ChatInit /\ AdminInit
SurfacesNext == SessionNext \/ BatchNext
SpecSurfaces == SurfacesInit /\ [][SurfacesNext]_vars


AdminSurfaceInit == surface = "admin" /\ ChatInit /\ AdminInit

\* SpecAdmin: both forms of Admin and the document list. SpecForms: the two
\* forms, the list requests they start left unanswered. SpecUpload: the
\* single form and the list. SpecBatch: the batch form alone.
AdminNext == UploadNext \/ BatchNext \/ DocumentsNext
FormsNext == UploadNext \/ BatchNext
\* SpecHandlers: the two forms, their submit handlers also called in the
\* states in which the buttons are not rendered or disabled by a name.
HandlersNext == FormsNext \/ CallHandleUpload \/ CallHandleBatchUpload
SpecHandlers == AdminSurfaceInit /\ [][HandlersNext]_vars
\* SpecDocuments: the document list, its fetches and its deletions.
SpecDocuments == AdminSurfaceInit /\ [][DocumentsNext \/ DeleteNext]_vars
SpecForms == AdminSurfaceInit /\ [][FormsNext]_vars
SpecAdmin == AdminSurfaceInit /\ [][AdminNext]_vars
SpecUpload == AdminSurfaceInit /\ [][UploadNext \/ DocumentsNext]_vars
SpecBatch == AdminSurfaceInit /\ [][BatchNext]_vars
\* SpecBatchFair: the batch form, every request sent coming to its load,
\* error or abort event and every timer set running out.
Transport == \E x \in DOMAIN xhrs : LoadFailure(x) \/ LoadSuccess(x)
Timers == \E x \in DOMAIN xhrs : CompleteTimer(x) \/ ResetTimer(x)
SpecBatchFair ==
    /\ AdminSurfaceInit
    /\ [][BatchNext]_vars
    /\ WF_vars(Transport)
    /\ WF_vars(Timers)
\* SpecViewer: the sources of the Chat surface being opened.
SpecViewer == StreamInit /\ [][ViewerNext]_vars
\* SpecPrompt: the system prompt editor.
SpecPrompt == AdminSurfaceInit /\ [][PromptNext]_vars

SpecStream == StreamInit /\ [][StreamNext]_vars

\* ---------------------------------------------- reference definitions
\* The lines of a text that are terminated by a line break, in order.
NLPositions(text) == {i \in 1..Len(text) : text[i] = NL}
KthNL(text, k) ==
    IF k = 0 THEN 0
    ELSE CHOOSE i \in NLPositions(text) :
            Cardinality({j \in NLPositions(text) : j <= i}) = k
TerminatedLines(text) ==
    [k \in 1..Cardinality(NLPositions(text)) |->
        SubSeq(text, KthNL(text, k - 1) + 1, KthNL(text, k) - 1)]

KnownTypes == {"sources", "sources_update", "content", "done", "error"}
RecordOf(line) == Parse(Drop(line, Len(Prefix)))
IsEventLine(line) ==
    StartsWith(line, Prefix) /\ RecordOf(line).ok /\ RecordOf(line).type \in KnownTypes
EventLines(text) == SelectSeq(TerminatedLines(text), IsEventLine)
EventsIn(text) == [k \in DOMAIN EventLines(text) |-> RecordOf(EventLines(text)[k])]

EndsAtLineBreak(text) == text = <<>> \/ Last(text) = NL
WellFormed(text) ==
    EndsAtLineBreak(text) /\ \A k \in DOMAIN TerminatedLines(text) :
        IsEventLine(TerminatedLines(text)[k])

\* The loop run on a whole text delivered as one chunk.
OneShot(c, text) == ProcessChunk(LoopState(NewCall(c.id[1]), <<StreamingMessage(c.id[1])>>), c.id, text)

MessagesOf(c) == {k \in DOMAIN messages : messages[k].id = c.id}

\* The step in which call i leaves its loop because the stream was closed.
Consumed(i) ==
    /\ calls[i].pc = "read"
    /\ calls'[i].pc = "ended" /\ calls'[i].outcome = "completed"
\* The assistant message call i leaves behind, where it is still listed.
LeavesMessage(i, m) ==
    \A k \in DOMAIN messages' : messages'[k].id = calls[i].id => messages'[k] = m

\* C1: chunking-invariance. When a well-formed stream has been consumed,
\* the events processed, the locals and the assistant message left behind
\* are those of the same text delivered as a single chunk, wherever the
\* chunk boundaries fell.
C1_AsOneChunk ==
    \A i \in DOMAIN calls :
        LET c == calls[i]
            one == OneShot(c, Received(c)) IN
        (Consumed(i) /\ WellFormed(Received(c))) =>
            /\ c.events = one.events
            /\ c.accumulatedContent = one.accumulatedContent
            /\ c.sources = one.sources
            /\ LeavesMessage(i, one.messages[1])
C1_ChunkingInvariance == [][C1_AsOneChunk]_vars

\* A two-record stream has been decoded to its end, its last line having
\* arrived in pieces, and is about to be closed.
C1_Witness ==
    \E i \in DOMAIN calls :
        /\ calls[i].pc = "read" /\ calls[i].pos = Len(calls[i].wire)
        /\ WellFormed(Received(calls[i]))
        /\ calls[i].carried
        /\ Len(calls[i].events) = 2
        /\ calls[i].accumulatedContent = <<"x", "y">>
        /\ \E k \in MessagesOf(calls[i]) : messages[k].content = <<"x", "y">>

\* C2: the lines the loop has handled are exactly the terminated lines of
\* the text received so far, each once and in order, and the events decoded
\* are exactly those of these lines: a line cut by chunk boundaries is
\* neither dropped nor decoded twice.
C2_SplitLineOnce ==
    \A i \in DOMAIN calls :
        LET c == calls[i] IN
        /\ c.handled = TerminatedLines(Received(c))
        /\ c.events = EventsIn(Received(c))

\* The last chunk completed a record whose beginning had been carried over.
C2_Witness ==
    \E i \in DOMAIN calls :
        /\ calls[i].carried
        /\ calls[i].buffer = <<>>
        /\ calls[i].events # <<>>
        /\ IsEventLine(Last(calls[i].handled))

\* C3: a stream of a `sources` record, N `content` records and a `done`
\* record leaves the assistant message of the request with isStreaming
\* false and with the N payloads concatenated in arrival order as content.
IsAnswer(text) ==
    LET ls == TerminatedLines(text) IN
    /\ EndsAtLineBreak(text)
    /\ Len(ls) >= 2
    /\ \A k \in DOMAIN ls : IsEventLine(ls[k])
    /\ RecordOf(ls[1]).type = "sources"
    /\ RecordOf(ls[Len(ls)]).type = "done"
    /\ \A k \in 2..(Len(ls) - 1) : RecordOf(ls[k]).type = "content"
AnswerText(text) ==
    LET ls == TerminatedLines(text) IN
    Flatten([k \in 1..(Len(ls) - 2) |-> RecordOf(ls[k + 1]).payload])

C3_AnswerStep ==
    \A i \in DOMAIN calls :
        LET c == calls[i] IN
        (Consumed(i) /\ IsAnswer(Received(c))) =>
            \A k \in DOMAIN messages' :
                messages'[k].id = c.id =>
                    /\ messages'[k].isStreaming = FALSE
                    /\ messages'[k].content = AnswerText(Received(c))
C3_AnswerContent == [][C3_AnswerStep]_vars

\* An answer of two different fragments has been decoded to its `done`
\* record and is shown.
C3_Witness ==
    \E i \in DOMAIN calls :
        /\ calls[i].pc = "read" /\ IsAnswer(Received(calls[i]))
        /\ AnswerText(Received(calls[i])) = <<"x", "y">>
        /\ \E k \in MessagesOf(calls[i]) :
              messages[k].content = <<"x", "y">> /\ ~messages[k].isStreaming

\* C4: once an `error` record has been decoded the stream is over: no call
\* is in its read loop with an `error` record among the events it applied
\* (the call has left through the outer catch, which shows the fallback
\* text and returns).
C4_ErrorEventTerminates ==
    \A i \in DOMAIN calls :
        calls[i].pc = "read" =>
            \A k \in DOMAIN calls[i].events : calls[i].events[k].type # "error"

\* C5: a transport failure is terminal. The call has ended, its assistant
\* message shows the fallback text and is not streaming, isLoading is
\* false, the call's state never changes again, and requests are issued
\* only by accepted sends: one POST per call, none as a retry.
TransportFailed(c) == c.outcome \in {"rejected", "status", "noreader", "readfailed"}

C5_FailedState ==
    /\ requests = Len(calls)
    /\ \A i \in DOMAIN calls :
        TransportFailed(calls[i]) =>
            /\ calls[i].pc = "ended"
            /\ i = Len(calls) => isLoading = FALSE
            /\ \A k \in MessagesOf(calls[i]) :
                  messages[k].content = Fallback /\ messages[k].isStreaming = FALSE

C5_FailedStep ==
    /\ \A i \in DOMAIN calls :
          TransportFailed(calls[i]) => (i \in DOMAIN calls' /\ calls'[i] = calls[i])
    /\ requests' # requests =>
          (requests' = requests + 1 /\ Len(calls') = Len(calls) + 1 /\ isLoading = FALSE)

C5_TransportFailureTerminal == []C5_FailedState /\ [][C5_FailedStep]_vars

\* A read failed in the middle of a stream, after text had been shown.
C5_Witness ==
    \E i \in DOMAIN calls :
        /\ calls[i].outcome = "readfailed"
        /\ \E k \in MessagesOf(calls[i]) :
              messages[k].content = Fallback /\ messages[k].sources # NoSources

\* C6: lines that are not event lines (no `data: ` prefix, unparseable, of
\* an unknown type) change nothing and end nothing: at every point of the
\* loop the locals, the events and the assistant message are those of the
\* received text with these lines removed, and the loop is left through
\* the outer catch only by a transport failure.
WithoutBadLines(text) == Wire(EventLines(text))

C6_BadLinesSkipped ==
    \A i \in DOMAIN calls :
        LET c == calls[i]
            clean == OneShot(c, WithoutBadLines(Received(c))) IN
        /\ c.outcome # "thrown"
        /\ c.pc = "read" =>
            /\ c.events = clean.events
            /\ c.accumulatedContent = clean.accumulatedContent
            /\ c.sources = clean.sources
            /\ \A k \in MessagesOf(c) : messages[k] = clean.messages[1]

\* A bad line was handled and an event line after it was decoded.
C6_Witness ==
    \E i \in DOMAIN calls :
        /\ Len(calls[i].handled) = 2
        /\ ~IsEventLine(calls[i].handled[1])
        /\ calls[i].handled[1] # Blank
        /\ calls[i].events = <<[ok |-> TRUE, type |-> "content", payload |-> <<"x">>]>>
        /\ \E k \in MessagesOf(calls[i]) : messages[k].content = <<"x">>

\* C7: no file above 1,610,612,736 bytes is ever selected, listed for a
\* batch or carried by an upload request; the batch dialog keeps exactly
\* the files that are not above the limit, in their order.
NotTooLarge(file) == file.size <= 1610612736

C7_OversizedRejected ==
    /\ NotTooLarge(selectedFile)
    /\ \A k \in DOMAIN batchFiles : NotTooLarge(batchFiles[k].file)
    /\ \A u \in DOMAIN uploads : NotTooLarge(uploads[u].file)
    /\ \A x \in DOMAIN xhrs : \A k \in DOMAIN xhrs[x].files : NotTooLarge(xhrs[x].files[k])
    /\ \A files \in SeqsUpTo(Files, MaxPick) :
          LET kept == NewFiles(files) IN
          [k \in DOMAIN kept |-> kept[k].file] = SelectSeq(files, NotTooLarge)

\* Files of exactly the limit are selected, listed and being uploaded.
C7_Witness ==
    /\ \E u \in DOMAIN uploads : uploads[u].file.size = 1610612736
    /\ \E x \in DOMAIN xhrs :
          Len(xhrs[x].files) = MaxBatch /\ xhrs[x].files[1].size = 1610612736

\* C8: while the tracker is active its percent never decreases, and it
\* shows 100 only when a 2xx response with a parseable body has been
\* received.
ParsedSuccess(x) == xhrs[x].result \in {"results", "noresults"}

C8_Only100AfterSuccess ==
    batchProgress.percent = 100 => \E x \in DOMAIN xhrs : ParsedSuccess(x)
C8_NeverDecreases ==
    (batchProgress.isActive /\ batchProgress'.isActive) =>
        batchProgress'.percent >= batchProgress.percent
C8_PercentMonotonic == []C8_Only100AfterSuccess /\ [][C8_NeverDecreases]_vars

\* The bar went from the last sent byte to 100.
C8_Witness ==
    /\ batchProgress.percent = 100
    /\ \E x \in DOMAIN xhrs : xhrs[x].pc = "complete"

\* C9: the stages are visited in order. Queued is entered from Uploading
\* only, Complete from Queued only, Uploading never after Queued; once the
\* response is in, the tracker returns to idle from Complete only, and
\* from idle nothing but a new upload leaves.
C9_StageStep ==
    LET from == batchProgress.stage
        to == batchProgress'.stage IN
    to # from =>
        /\ to = "Uploading" => from = "Preparing"
        /\ to = "Queued" => from = "Uploading"
        /\ to = "Complete" => from = "Queued"
        /\ from = "Queued" => to = "Complete"
        /\ from = "Complete" => batchProgress' = Idle
        /\ from = "" => to = "Preparing"
C9_StageOrder == [][C9_StageStep]_vars

\* A successful upload has gone through all stages and the reset, which
\* asked for the document list.
C9_Witness ==
    /\ batchProgress = Idle /\ ~isBatchUploading
    /\ xhrs = <<>> /\ fetches # <<>>

\* C10: at most one chat stream is awaited or read, and at most one batch
\* upload request is in flight.
InFlight(x) == xhrs[x].pc = "sending"

C10_OneAtATime ==
    /\ Cardinality({i \in DOMAIN calls : Active(calls[i])}) <= 1
    /\ Cardinality({x \in DOMAIN xhrs : InFlight(x)}) <= 1

\* A second stream is read after the first has ended and the list was
\* cleared.
C10_Witness ==
    /\ Len(calls) = 2
    /\ calls[1].pc = "ended"
    /\ calls[2].pc = "read" /\ calls[2].pos > 0
    /\ \A k \in DOMAIN messages : messages[k].id[1] = 2

\* C11: a DELETE answered with success makes the handler ask for the list
\* again, and what that request is served, and shows when it is answered,
\* is the backend's list without the document; a DELETE answered with a failure status or failing
\* at the network level issues no request and leaves documents as it is; in
\* each case the handler ends.
DeleteEnds(j, outcome) ==
    deletes[j].pc # "done" /\ deletes'[j].pc = "done" /\ deletes'[j].outcome = outcome

C11_DeleteStep ==
    /\ \A j \in DOMAIN deletes :
          /\ DeleteEnds(j, "deleted") =>
                /\ Len(fetches') = Len(fetches) + 1
                /\ Last(fetches').pc = "pending"
                /\ Last(fetches').after = deletes[j].doc
                /\ documents' = documents
          /\ (DeleteEnds(j, "status") \/ DeleteEnds(j, "network")) =>
                fetches' = fetches /\ documents' = documents
    /\ \A k \in DOMAIN fetches :
          (fetches[k].after # NoDoc /\ fetches' = RemoveAt(fetches, k)) =>
                /\ documents' \in {fetches[k].list, <<>>}
                /\ \A row \in DOMAIN documents' : documents'[row] # fetches[k].after
\* What a refetch is served is the backend's list, the document not in it.
C11_RefetchServed ==
    /\ \A k \in DOMAIN fetches :
          (fetches[k].pc = "served" /\ fetches[k].after # NoDoc) =>
              /\ \A row \in DOMAIN fetches[k].list : fetches[k].list[row] # fetches[k].after
              /\ \A row \in DOMAIN fetches[k].list : fetches[k].list[row] \in Docs
    /\ \A j \in DOMAIN deletes :
          deletes[j].outcome = "deleted" => deletes[j].doc \notin server
C11_DeleteRefetches == []C11_RefetchServed /\ [][C11_DeleteStep]_vars

\* One document was deleted and its refetch answered with the rest of the
\* list; a repeated delete of it was answered with a failure.
C11_Witness ==
    /\ documents = <<"d2">>
    /\ fetches = <<>>
    /\ Len(deletes) = 2
    /\ deletes[1].doc = "d1" /\ deletes[1].outcome = "deleted"
    /\ deletes[2].doc = "d1" /\ deletes[2].outcome = "status"

\* C12: a submission that fails validation sends nothing and sets nothing:
\* a single upload is started, or isUploading set, only with a selected
\* file and a display name that is not empty; a batch upload is started,
\* or isBatchUploading or the tracker set, only with a list that is not
\* empty and has no blank display name; the step that shows a validation
\* message changes nothing of either form and issues no request.
ValidationMessages ==
    {"Please select a file and provide a display name",
     "Please select files to upload",
     "Please provide display names for all files"}

C12_ValidationStep ==
    /\ (Len(uploads') > Len(uploads) \/ (~isUploading /\ isUploading')) =>
          selectedFile # NoFile /\ metadata.displayName # <<>>
    /\ (Len(xhrs') > Len(xhrs) \/ (~isBatchUploading /\ isBatchUploading')
            \/ (batchProgress = Idle /\ batchProgress' # Idle)) =>
          /\ batchFiles # <<>>
          /\ \A k \in DOMAIN batchFiles : ~IsBlank(batchFiles[k].displayName)
    /\ (alerted' # alerted /\ alerted' \in ValidationMessages) =>
          /\ UNCHANGED <<uploadVars, batchVars, fetches>>
          /\ \/ selectedFile = NoFile \/ metadata.displayName = <<>>
             \/ batchFiles = <<>>
             \/ \E k \in DOMAIN batchFiles : IsBlank(batchFiles[k].displayName)
C12_InvalidSubmissionInert == [][C12_ValidationStep]_vars

\* handleBatchUpload was called on a list with a blank display name: the
\* message is shown and nothing was sent.
C12_Witness ==
    /\ alerted = "Please provide display names for all files"
    /\ Len(batchFiles) = 2 /\ IsBlank(batchFiles[2].displayName)
    /\ ~IsBlank(batchFiles[1].displayName)
    /\ xhrs = <<>> /\ ~isBatchUploading /\ batchProgress = Idle

\* C13: for every progress event with 0 <= loaded <= total and total > 0
\* the listener shows the ratio loaded/total scaled to 90 and rounded, a
\* value between 0 and 90; in stage Uploading, and as long as the request
\* has not been answered, the percent shown is at most 90.
C13_EventsInRange ==
    \A total \in 1..MaxBytes : \A loaded \in 0..total :
        LET shown == UploadPercent(loaded, total) IN
        /\ shown \in 0..90
        /\ 2 * total * shown <= 2 * 90 * loaded + total
        /\ 2 * 90 * loaded + total < 2 * total * (shown + 1)

C13_UploadingPercent ==
    /\ C13_EventsInRange
    /\ batchProgress.stage = "Uploading" => batchProgress.percent \in 0..90
    /\ \A x \in DOMAIN xhrs :
          xhrs[x].pc = "sending" =>
              /\ batchProgress.percent \in 0..90
              /\ batchProgress.stage = "Uploading" =>
                    batchProgress.percent = UploadPercent(xhrs[x].loaded, xhrs[x].total)

\* The whole body has been sent and the response is still awaited.
C13_Witness ==
    /\ batchProgress.stage = "Uploading" /\ batchProgress.percent = 90
    /\ \E x \in DOMAIN xhrs :
          xhrs[x].pc = "sending" /\ xhrs[x].loaded = xhrs[x].total /\ xhrs[x].total = MaxTotal

\* C14: after each chunk the carry-over buffer holds no line break and is
\* the text received since the last line break, and the lines handed to
\* the parser are the text before it cut at its line breaks: no line is
\* handled before its line break has arrived.
C14_BufferIsOpenLine ==
    \A i \in DOMAIN calls :
        LET c == calls[i] IN
        /\ ~HasNL(c.buffer)
        /\ \A k \in DOMAIN c.handled : ~HasNL(c.handled[k])
        /\ Wire(c.handled) \o c.buffer = Received(c)

\* One line has been handled and the beginning of the next one is held
\* back.
C14_Witness ==
    \E i \in DOMAIN calls :
        /\ calls[i].pc = "read"
        /\ Len(calls[i].handled) = 1 /\ IsEventLine(calls[i].handled[1])
        /\ calls[i].buffer # <<>> /\ StartsWith(calls[i].buffer, Prefix)
        /\ Len(calls[i].events) = 1

\* C15: when the stream is closed while the buffer is not empty, the tail
\* is not decoded: the events applied are those of the terminated lines,
\* the closing step changes no message, and the assistant message left is
\* that of the text without its tail, even when the tail is a whole record.
WithoutTail(text) == Wire(TerminatedLines(text))

C15_TailStep ==
    \A i \in DOMAIN calls :
        LET c == calls[i] IN
        (Consumed(i) /\ c.buffer # <<>>) =>
            /\ c.events = EventsIn(WithoutTail(Received(c)))
            /\ c.handled = TerminatedLines(Received(c))
            /\ messages' = messages
            /\ LeavesMessage(i, OneShot(c, WithoutTail(Received(c))).messages[1])
C15_TailNeverDecoded == [][C15_TailStep]_vars

\* Text is shown and the terminator has arrived whole but for its line
\* break: the message is still marked as streaming when the stream closes.
C15_Witness ==
    \E i \in DOMAIN calls :
        /\ calls[i].pc = "read"
        /\ IsEventLine(calls[i].buffer) /\ RecordOf(calls[i].buffer).type = "done"
        /\ calls[i].pos = Len(calls[i].wire) - 1
        /\ \E k \in MessagesOf(calls[i]) :
              messages[k].isStreaming /\ messages[k].content = <<"x">>

\* C16: while a stream is read, the content of its assistant message is
\* the concatenation, in arrival order, of the payloads of the `content`
\* records whose lines have been received with their line break: nothing
\* of a line still open is in it, and a step of the loop only appends.
IsContent(ev) == ev.type = "content"
ContentOf(text) ==
    LET evs == SelectSeq(EventsIn(text), IsContent) IN
    Flatten([k \in DOMAIN evs |-> evs[k].payload])
IsPrefixOf(a, b) == Len(a) <= Len(b) /\ SubSeq(b, 1, Len(a)) = a

C16_ContentSoFar ==
    \A i \in DOMAIN calls :
        Active(calls[i]) =>
            \A k \in MessagesOf(calls[i]) :
                messages[k].content = ContentOf(Received(calls[i]))
C16_OnlyAppends ==
    \A i \in DOMAIN calls :
        (calls[i].pc = "read" /\ calls'[i].pc = "read") =>
            \A k \in DOMAIN messages : \A n \in DOMAIN messages' :
                (messages[k].id = calls[i].id /\ messages'[n].id = calls[i].id) =>
                    IsPrefixOf(messages[k].content, messages'[n].content)
C16_ArrivalOrder == []C16_ContentSoFar /\ [][C16_OnlyAppends]_vars

\* The first fragment is shown; the record of the second one has arrived
\* whole but for its line break and is not shown.
C16_Witness ==
    \E i \in DOMAIN calls :
        /\ calls[i].pc = "read"
        /\ calls[i].buffer = LineFor("content", <<"y">>)
        /\ ContentOf(Received(calls[i])) = <<"x">>
        /\ \E k \in MessagesOf(calls[i]) : messages[k].content = <<"x">>

\* C17: when a stream that carried a `sources` or `sources_update` record
\* has been consumed, the sources of its assistant message are the list of
\* the last such record.
IsSourceList(ev) == ev.type \in {"sources", "sources_update"}
SourceLists(text) == SelectSeq(EventsIn(text), IsSourceList)

C17_SourcesStep ==
    \A i \in DOMAIN calls :
        LET c == calls[i] IN
        (Consumed(i) /\ SourceLists(Received(c)) # <<>>) =>
            \A k \in DOMAIN messages' :
                messages'[k].id = c.id =>
                    messages'[k].sources = Last(SourceLists(Received(c))).payload
C17_SourcesAreLast == [][C17_SourcesStep]_vars

\* C18: every call decodes from fresh locals. While a call is awaited or
\* read, its buffer, its accumulated content and its source list are
\* functions of the text of its own stream, and so are the content and the
\* sources of its assistant message: nothing of an earlier stream is in
\* them, however that one ended.
OwnSources(text) ==
    IF SourceLists(text) = <<>> THEN <<>> ELSE Last(SourceLists(text)).payload

C18_FreshLocals ==
    \A i \in DOMAIN calls :
        LET c == calls[i]
            text == Received(c) IN
        Active(c) =>
            /\ c.accumulatedContent = ContentOf(text)
            /\ c.sources = OwnSources(text)
            /\ WithoutTail(text) \o c.buffer = text
            /\ \A k \in MessagesOf(c) :
                  /\ messages[k].content = ContentOf(text)
                  /\ messages[k].sources \in
                        {NoSources, <<>>} \cup
                        {SourceLists(text)[n].payload : n \in DOMAIN SourceLists(text)}

\* The first stream left a source list, text and no terminator; the
\* second message shows the text of its own stream and no sources.
C18_Witness ==
    /\ Len(calls) = 2 /\ calls[2].pc = "read"
    /\ Len(messages) = 4
    /\ messages[2].content = <<"x">> /\ messages[2].sources = <<"2">>
    /\ messages[2].isStreaming
    /\ messages[4].content = <<"y">> /\ messages[4].sources = <<>>

\* C19: when a batch upload in flight ends without a parsed success
\* response (abort, network error, other status, body that is not JSON),
\* that step sets the tracker to idle and isBatchUploading to false and
\* leaves batchFiles and batchMode as they are.
C19_FailureStep ==
    \A x \in DOMAIN xhrs :
        (xhrs[x].pc = "sending" /\ xhrs' = RemoveAt(xhrs, x)) =>
            /\ batchProgress' = Idle
            /\ isBatchUploading' = FALSE
            /\ batchFiles' = batchFiles
            /\ batchMode' = batchMode
C19_FailureKeepsBatch == [][C19_FailureStep]_vars

\* A batch upload failed on the network: the form is idle again and still
\* lists its two files.
C19_Witness ==
    /\ alerted = "Batch upload failed: Network error"
    /\ xhrs = <<>> /\ ~isBatchUploading /\ batchProgress = Idle
    /\ batchMode /\ Len(batchFiles) = 2

\* C20: the step that ends a single upload sets isUploading to false; after
\* a success it has set selectedFile to null and metadata to its defaults
\* and has started one fetch of the document list; after a failure status
\* (413 included) or a network error it has left selectedFile, metadata
\* and the pending fetches as they were.
C20_UploadStep ==
    \A u \in DOMAIN uploads :
        (uploads[u].pc = "sending" /\ uploads' = RemoveAt(uploads, u)) =>
            /\ isUploading' = FALSE
            /\ IF alerted' = "Document uploaded successfully!"
               THEN /\ selectedFile' = NoFile
                    /\ metadata' = DefaultMetadata
                    /\ Len(fetches') = Len(fetches) + 1
                    /\ fetches'[Len(fetches')].pc = "pending"
               ELSE /\ selectedFile' = selectedFile
                    /\ metadata' = metadata
                    /\ fetches' = fetches
C20_UploadOutcomes == [][C20_UploadStep]_vars

\* An upload was answered with status 413: the file and its display name
\* are still in the form, no fetch was started, isUploading is false.
C20_Witness ==
    /\ alerted = "File is too large. Please select a file smaller than 1.5 GB."
    /\ uploads = <<>> /\ ~isUploading
    /\ selectedFile # NoFile /\ metadata.displayName # <<>>
    /\ fetches = <<>>

\* C21: the step that ends a save leaves promptSaving false and either
\* has set isCustomPrompt (systemPrompt and promptError as they were) or
\* has set promptError with systemPrompt and isCustomPrompt as they were;
\* the step that ends a reset leaves promptSaving false and either has set
\* systemPrompt to the prompt of the response and isCustomPrompt to false,
\* or has set promptError with systemPrompt and isCustomPrompt as they were.
\* Success is a 2xx response (for a reset, one whose body parses).
C21_PromptStep ==
    /\ (promptCall.kind = "save" /\ promptCall' = NoCall) =>
          /\ promptSaving' = FALSE
          /\ IF promptCall.answer \in {"ok", "badjson"}
             THEN /\ isCustomPrompt' = TRUE
                  /\ systemPrompt' = systemPrompt
                  /\ promptError' = NoError
             ELSE /\ promptError' # NoError
                  /\ systemPrompt' = systemPrompt
                  /\ isCustomPrompt' = isCustomPrompt
    /\ (promptCall.kind = "reset" /\ promptCall' = NoCall) =>
          /\ promptSaving' = FALSE
          /\ IF promptCall.answer = "ok"
             THEN /\ systemPrompt' = promptCall.prompt
                  /\ isCustomPrompt' = FALSE
                  /\ promptError' = NoError
             ELSE /\ promptError' # NoError
                  /\ systemPrompt' = systemPrompt
                  /\ isCustomPrompt' = isCustomPrompt
C21_PromptOutcomes == [][C21_PromptStep]_vars

\* A reset failed after an edited prompt had been saved: the prompt is
\* still the edited one and still marked custom.
C21_Witness ==
    /\ promptError = <<"Failed to reset">>
    /\ promptCall = NoCall /\ ~promptSaving
    /\ isCustomPrompt /\ systemPrompt = <<"e">>

\* C22: whenever isLoading is false, no message of the list has
\* isStreaming = true.
C22_NoneStreamingWhenIdle ==
    ~isLoading => \A m \in DOMAIN messages : ~messages[m].isStreaming

\* C23: isLoading is true exactly while an accepted send has not ended,
\* and, every fetch and every read being settled, an accepted send is
\* followed by isLoading = false, however it ends.
C23_LoadingWhileActive ==
    isLoading <=> \E i \in DOMAIN calls : Active(calls[i])
C23_LoadingEnds == [] C23_LoadingWhileActive /\ (isLoading ~> ~isLoading)

\* A second send ended by a failed read, the first by a missing reader or
\* a failure status: isLoading is false again.
C23_Witness ==
    /\ Len(calls) = 2 /\ ~isLoading
    /\ calls[1].outcome \in {"status", "noreader"}
    /\ calls[2].outcome = "readfailed"

\* C24: a batch upload that has been started is followed by the idle
\* state: isBatchUploading false and batchProgress inactive at percent 0.
C24_ReturnsToIdle ==
    isBatchUploading ~> (~isBatchUploading /\ batchProgress = Idle)

\* C25: in every state batchProgress.isActive equals isBatchUploading,
\* batchProgress.percent is in 0..100, percent 100 is shown with stage
\* Complete only and percent 95 with stage Queued only.
C25_TrackerConsistent ==
    /\ batchProgress.isActive = isBatchUploading
    /\ batchProgress.percent \in 0..100
    /\ batchProgress.percent = 100 => batchProgress.stage = "Complete"
    /\ batchProgress.percent = 95 => batchProgress.stage = "Queued"

\* The response of a batch upload has been parsed and its first timer has
\* not run out: 95 / Queued while the upload flag is set.
C25_Witness ==
    /\ batchProgress.percent = 95 /\ isBatchUploading
    /\ \E x \in DOMAIN xhrs : xhrs[x].pc = "queued"

\* C26: New Chat empties the message list, and while the list is empty
\* and a stream is still being consumed (isLoading) no step adds a
\* message and no send is accepted: the list is empty after the step, and
\* no call and no request has been added.
C26_NewChatStep ==
    /\ (isLoading /\ messages # <<>> /\ messages' # messages
           /\ UNCHANGED <<isLoading, calls>>) => messages' = <<>>
    /\ (isLoading /\ messages = <<>>) =>
          /\ messages' = <<>>
          /\ Len(calls') = Len(calls)
          /\ requests' = requests
C26_AbandonedStreamSilent == [][C26_NewChatStep]_vars

\* New Chat was invoked in the middle of a stream: the list is empty while
\* the loop still reads and holds the text it has accumulated.
C26_Witness ==
    /\ messages = <<>> /\ isLoading
    /\ \E i \in DOMAIN calls :
          calls[i].pc = "read" /\ calls[i].accumulatedContent # <<>>
          /\ calls[i].pos < Len(calls[i].wire)

\* C27: a step that accepts a send appends two messages, the user message
\* and then an assistant message with empty content, isStreaming = true
\* and the id of the new request; a step of a request already accepted
\* keeps the length of the list and changes no message but the one with
\* the id of that request, whose id and role it keeps; a step that
\* accepts no send and belongs to no request (a refused send among them)
\* leaves the list as it is or, for New Chat, empty.
C27_SendStep ==
    /\ Len(calls') = Len(calls) + 1 =>
          /\ Len(messages') = Len(messages) + 2
          /\ SubSeq(messages', 1, Len(messages)) = messages
          /\ LET u == messages'[Len(messages) + 1]
                 a == messages'[Len(messages) + 2]
             IN  /\ u.role = "user" /\ ~IsBlank(u.content)
                 /\ a.role = "assistant" /\ a.content = <<>> /\ a.isStreaming
                 /\ a.id = Last(calls').id
    /\ \A i \in DOMAIN calls :
          (Len(calls') = Len(calls) /\ calls'[i] # calls[i]) =>
              /\ Len(messages') = Len(messages)
              /\ \A k \in DOMAIN messages :
                    /\ messages'[k].id = messages[k].id
                    /\ messages'[k].role = messages[k].role
                    /\ messages'[k] # messages[k] => messages[k].id = calls[i].id
    /\ calls' = calls => (messages' = messages \/ messages' = <<>>)
C27_OnlyOwnMessage == [][C27_SendStep]_vars

\* The stream of a second request has written into its own assistant
\* message, below the finished pair of the first request.
C27_Witness ==
    /\ Len(messages) = 4 /\ Len(calls) = 2
    /\ calls[2].pc = "read"
    /\ messages[2].content # <<>> /\ ~messages[2].isStreaming
    /\ messages[4].content # <<>> /\ messages[4].id = calls[2].id

\* C28: isLoading is false only when no fetch of the list is outstanding;
\* and once every fetch has answered, the documents shown are those the
\* last fetch issued was answered with.  Every deletion the backend
\* performed being followed by a refetch, and no answer having been a
\* failure since the last fetch was issued, that list is what the backend
\* holds.
C28_LoadingWhileOutstanding == ~adminIsLoading => fetches = <<>>
C28_ShowsLastIssued ==
    (/\ fetches = <<>> /\ ~debounce /\ adminError = NoError
     /\ \A j \in DOMAIN deletes :
           deletes[j].pc = "done" /\ deletes[j].outcome # "network")
        => documents = ServerList(server)
C28_LastFetchWins == C28_LoadingWhileOutstanding /\ C28_ShowsLastIssued

\* C29: a step that leaves batch mode while a batch request is sent or
\* its response is being shown (handleCancelBatch) empties batchFiles and
\* leaves isBatchUploading, batchProgress and the request as they are; and
\* once batch mode has been left this way the events of the request are
\* still handled: a progress event sets the tracker, the end of the
\* sending sets Queued or resets the tracker and the flag.
C29_CancelStep ==
    /\ (/\ batchMode /\ ~batchMode'
        /\ \E x \in DOMAIN xhrs : xhrs[x].pc \in {"sending", "queued"}) =>
          /\ batchFiles' = <<>>
          /\ isBatchUploading' = isBatchUploading
          /\ batchProgress' = batchProgress
          /\ xhrs' = xhrs
    /\ \A x \in DOMAIN xhrs :
          (~batchMode /\ xhrs[x].pc = "sending" /\ xhrs' # xhrs) =>
              IF xhrs' = RemoveAt(xhrs, x)
              THEN batchProgress' = Idle /\ ~isBatchUploading'
              ELSE /\ isBatchUploading'
                   /\ batchProgress'.stage \in {"Uploading", "Queued"}
C29_CancelDoesNotStop == [][C29_CancelStep]_vars

\* Batch mode was cancelled while the request was being sent: the form is
\* gone, the flag is set, the tracker shows the upload and the request is
\* still there.
C29_Witness ==
    /\ ~batchMode /\ batchFiles = <<>>
    /\ isBatchUploading /\ batchProgress.stage = "Uploading"
    /\ Len(xhrs) = 1 /\ xhrs[1].pc = "sending" /\ xhrs[1].loaded > 0

\* C30: handleSourceClick takes the first URL in the order own fileUrl,
\* download endpoint, documents list, constructed URL.  A click on a
\* source with a fileUrl sets selectedDocument at once and starts no
\* request; a click on one without starts with the download endpoint; a
\* download answer with a URL ends the call with that URL, any other
\* download answer leads to the list request; a list answer ends the call
\* with the listed fileUrl or else the constructed URL; and every call
\* that ends has set selectedDocument to its source with a non-empty
\* fileUrl.
C30_StepOf(k) ==
    /\ opens[k].answer # "none"
    /\ \/ opens' = RemoveAt(opens, k)
       \/ opens' = [opens EXCEPT ![k] = NewOpen(opens[k].source, "list")]
C30_Resolves(k) ==
    LET call == opens[k]
        source == call.source
    IN  IF call.pc = "download" /\ call.answer = "url"
        THEN /\ opens' = RemoveAt(opens, k)
             /\ selectedDocument' = [source EXCEPT !.fileUrl = <<"download">>]
        ELSE IF call.pc = "download"
        THEN /\ opens' = [opens EXCEPT ![k] = NewOpen(source, "list")]
             /\ selectedDocument' = selectedDocument
        ELSE /\ opens' = RemoveAt(opens, k)
             /\ selectedDocument'.filename = source.filename
             /\ ~selectedDocument'.none
             /\ selectedDocument'.fileUrl # <<>>
             /\ IF call.answer = "found"
                THEN selectedDocument'.fileUrl = <<"list">>
                ELSE selectedDocument'.fileUrl[1] = "/api/documents/"
C30_ClickStep ==
    /\ (opens' = opens /\ selectedDocument' # selectedDocument
           /\ selectedDocument' # NoSource) =>
          selectedDocument' \in {src \in Sources : src.fileUrl # <<>>}
    /\ Len(opens') = Len(opens) + 1 =>
          /\ Last(opens').source.fileUrl = <<>>
          /\ Last(opens').answer = "none"
          /\ \/ Last(opens').pc = "download"
             \/ EncodeThrows(Last(opens').source.filename)
          /\ selectedDocument' = selectedDocument
C30_Step ==
    /\ C30_ClickStep
    /\ \A k \in DOMAIN opens : C30_StepOf(k) => C30_Resolves(k)
C30_FallbackOrder == [][C30_Step]_vars

\* The same for the sources whose file name encodeURIComponent accepts.
C30_StepEncodable ==
    /\ C30_ClickStep
    /\ \A k \in DOMAIN opens :
          (C30_StepOf(k) /\ ~EncodeThrows(opens[k].source.filename)) => C30_Resolves(k)
C30_FallbackOrderEncodable == [][C30_StepEncodable]_vars

====
